---------------------------- MODULE Spec2Model ----------------------------
(***************************************************************************)
(* A model of src/app.py: the /predict handler of the health-prediction    *)
(* service, its validation loop, its prediction loop, its catch-all        *)
(* exception handler, and the pure function minutes_to_time.               *)
(*                                                                         *)
(* Conventions.                                                            *)
(*  - A Python str is a sequence of string fragments whose concatenation   *)
(*    is the text (an f-string is the sequence of its parts).              *)
(*  - A model's raw prediction is a float; it is kept in quarters          *)
(*    (the integer q stands for q/4), which are exact in binary floating   *)
(*    point, so truncation, flooring and round-half-even are the float's.  *)
(*    Raw predictions are finite numbers (no NaN, no infinity, no str).    *)
(*  - Request fields are kept as whole numbers.                            *)
(*  - The pickled artifacts are opaque: a call into one either raises or   *)
(*    returns, chosen nondeterministically.  `calls' records, per request, *)
(*    the range checks executed and the calls made into the artifacts.     *)
(***************************************************************************)
EXTENDS Integers, Sequences, FiniteSets, TLC

VARIABLES
    models,          \* app.py:24  dict of per-target models, as its keys in dict order
    preprocessor,    \* app.py:25  the shared feature preprocessor
    encoders,        \* app.py:26  dict column -> label encoder (its classes_)
    input_features,  \* app.py:30  list of the 22 feature names
    pc,              \* position of the handler
    user_input,      \* app.py:78  data.dict()
    idx,             \* position of the validation loop in user_input.items()
    processed_input, \* app.py:96
    mi,              \* position of the prediction loop in models.items()
    prediction,      \* app.py:100 raw prediction of the current column, in quarters
    predictions,     \* app.py:99  dict column -> formatted value
    exc,             \* the exception in flight / caught by line 111
    response,        \* what leaves the handler
    calls            \* per-request log of range checks and artifact calls

artifacts == <<models, preprocessor, encoders, input_features>>
locals == <<user_input, idx, processed_input, mi, prediction, predictions>>
vars == <<models, preprocessor, encoders, input_features, pc, user_input, idx,
          processed_input, mi, prediction, predictions, exc, response, calls>>

---------------------------------------------------------------------------
(* Bounds of the model *)

\* number of classes a label encoder knows
MaxLabels == 2
\* minutes_to_time is explored for whole days before day 0 and after day 0
MaxDays == 1

---------------------------------------------------------------------------
(* HealthInput and input_features *)

\* a declaration order that follows the grouping of the validation branches
FieldOrderGrouped ==
    << "Age", "BMI", "Sleep_Hours", "Exercise_Level", "Stress_Level",
       "Mental_Health_Priority", "Smoking_Status", "Telehealth_Preference",
       "Vegetarian", "PCOD", "PCOS", "Heart_Disease", "Diabetes", "High_BP",
       "Low_BP", "Hypertension", "Migraine", "Thyroid", "Endometriosis",
       "Osteoporosis", "Anemia", "Depression" >>

\* the declaration order of HealthInput, which is the order of data.dict()
FieldOrder ==
    << "Age", "BMI", "Exercise_Level", "Sleep_Hours", "Stress_Level",
       "Mental_Health_Priority", "Smoking_Status", "Telehealth_Preference",
       "Vegetarian", "PCOD", "PCOS", "Heart_Disease", "Diabetes", "High_BP",
       "Low_BP", "Hypertension", "Migraine", "Thyroid", "Endometriosis",
       "Osteoporosis", "Anemia", "Depression" >>

\* the value of the module-level list input_features
InputFeatureList ==
    << "Age", "BMI", "Exercise_Level", "Sleep_Hours", "Stress_Level",
       "Mental_Health_Priority", "Smoking_Status", "Telehealth_Preference",
       "Vegetarian", "PCOD", "PCOS", "Heart_Disease", "Diabetes", "High_BP",
       "Low_BP", "Hypertension", "Migraine", "Thyroid", "Endometriosis",
       "Osteoporosis", "Anemia", "Depression" >>

Range(s) == { s[i] : i \in 1..Len(s) }

FloatFields ==
    { "Age", "BMI", "Exercise_Level", "Sleep_Hours", "Stress_Level",
      "Mental_Health_Priority" }

FlagFields == Range(FieldOrder) \ FloatFields

---------------------------------------------------------------------------
(* Exceptions and responses *)

NoText == << >>

NoException == [type |-> "none", status_code |-> 0, detail |-> NoText]

\* fastapi.HTTPException(status_code=..., detail=...)
HTTPException(status_code, detail) ==
    [type |-> "HTTPException", status_code |-> status_code, detail |-> detail]

\* an exception raised inside one of the artifacts (or by int / format)
ArtifactError(what) ==
    [type |-> "Exception", status_code |-> 0, detail |-> <<what>>]

\* str(e): HTTPException prints "<status_code>: <detail>", others their message
StatusText(n) == IF n = 400 THEN "400" ELSE IF n = 500 THEN "500" ELSE "0"

StrOfException(e) ==
    IF e.type = "HTTPException"
    THEN <<StatusText(e.status_code), ": ">> \o e.detail
    ELSE e.detail

NoResponse ==
    [status_code |-> 0, keys |-> {}, detail |-> NoText, predictions |-> << >>]

\* the JSON body FastAPI renders for a raised HTTPException
HTTPErrorResponse(e) ==
    [status_code |-> e.status_code, keys |-> {"detail"}, detail |-> e.detail,
     predictions |-> << >>]

\* return {"predictions": predictions}
OkResponse(preds) ==
    [status_code |-> 200, keys |-> {"predictions"}, detail |-> NoText,
     predictions |-> preds]

---------------------------------------------------------------------------
(* Validation: the body of the loop over user_input.items() *)

\* the loop body with the bounds of Age excluded
RangeErrorStrict(feature, val) ==
    IF feature = "Age" /\ ~(18 < val /\ val < 100)
    THEN <<"Age must be between 18 and 100">>
    ELSE IF feature = "BMI" /\ ~(10 <= val /\ val <= 50)
    THEN <<"BMI must be between 10 and 50">>
    ELSE IF feature = "Sleep_Hours" /\ ~(0 <= val /\ val <= 24)
    THEN <<"Sleep Hours must be between 0 and 24">>
    ELSE IF feature \in {"Exercise_Level", "Stress_Level", "Mental_Health_Priority"}
            /\ ~(0 <= val /\ val <= 10)
    THEN <<feature, " must be between 0 and 10">>
    ELSE << >>

\* the detail of the HTTPException the loop body raises for (feature, val),
\* or NoText when it raises nothing
RangeError(feature, val) ==
    IF feature \in {"Age", "BMI", "Sleep_Hours"}
    THEN IF feature = "Age" /\ ~(18 <= val /\ val <= 100)
         THEN <<"Age must be between 18 and 100">>
         ELSE IF feature = "BMI" /\ ~(10 <= val /\ val <= 50)
         THEN <<"BMI must be between 10 and 50">>
         ELSE IF feature = "Sleep_Hours" /\ ~(0 <= val /\ val <= 24)
         THEN <<"Sleep Hours must be between 0 and 24">>
         ELSE NoText
    ELSE IF feature \in {"Exercise_Level", "Stress_Level", "Mental_Health_Priority"}
    THEN IF ~(0 <= val /\ val <= 10)
         THEN <<feature, " must be between 0 and 10">>
         ELSE NoText
    ELSE NoText

\* whether the loop body compares the value of this feature against a range
IsRangeChecked(feature) ==
    \/ feature \in {"Age", "BMI", "Sleep_Hours"}
    \/ feature \in {"Exercise_Level", "Stress_Level", "Mental_Health_Priority"}

---------------------------------------------------------------------------
(* Floats kept in quarters: q stands for q/4 *)

\* int(q/4): truncation toward zero
IntOf(q) == IF q >= 0 THEN q \div 4 ELSE -((-q) \div 4)

\* division that truncates toward zero instead of flooring
TruncDivBy(q, d) == IF q >= 0 THEN q \div (4 * d) ELSE -((-q) \div (4 * d))

\* float floor division and float modulus by a whole number d
FloorDivBy(q, d) == q \div (4 * d)
ModBy(q, d) == q % (4 * d)

Digit(d) == <<"0", "1", "2", "3", "4", "5", "6", "7", "8", "9">>[d + 1]

RECURSIVE Decimal(_)
\* the decimal digits of a natural number
Decimal(n) == IF n < 10 THEN <<Digit(n)>> ELSE Decimal(n \div 10) \o <<Digit(n % 10)>>

\* f"{n:02d}" for a natural number n
TwoDigits(n) == IF n < 10 THEN <<"0", Digit(n)>> ELSE Decimal(n)

\* minutes_to_time without the "or 12": midnight and noon print hour 00
minutes_to_time_zero_hour(minutes) ==
    LET hours24 == FloorDivBy(minutes, 60) % 24
        mins    == IntOf(ModBy(minutes, 60))
        period  == IF hours24 < 12 THEN "AM" ELSE "PM"
    IN  TwoDigits(hours24 % 12) \o <<":">> \o TwoDigits(mins) \o <<" ", period>>

\* minutes_to_time(minutes), minutes a float in quarters
minutes_to_time(minutes) ==
    LET hours24 == FloorDivBy(minutes, 60) % 24
        mins    == IntOf(ModBy(minutes, 60))
        period  == IF hours24 < 12 THEN "AM" ELSE "PM"
        hours   == IF hours24 % 12 = 0 THEN 12 ELSE hours24 % 12
    IN  TwoDigits(hours) \o <<":">> \o TwoDigits(mins) \o <<" ", period>>

\* the number of tenths f"{q/4:.1f}" prints, for q >= 0: 10q/4 = 5q/2 rounded
\* half to even
TenthsHalfEven(q) ==
    LET n == 5 * q
        f == n \div 2
    IN  IF n % 2 = 0 THEN f ELSE IF f % 2 = 0 THEN f ELSE f + 1

\* f"{prediction:.1f}"
FormatOneDecimal(q) ==
    LET a == IF q < 0 THEN -q ELSE q
        t == TenthsHalfEven(a)
    IN  (IF q < 0 THEN <<"-">> ELSE << >>) \o Decimal(t \div 10) \o <<".", Digit(t % 10)>>

\* encoders[column].inverse_transform([k])[0]: the k-th class, or an error
\* ("y contains previously unseen labels") when k is no class index
KnowsLabel(classes, k) == 0 <= k /\ k < Len(classes)
InverseTransform(classes, k) == classes[k + 1]

\* the branches with the time columns tested before the encoders
FormatRuleTimeFirst(column) ==
    IF column \in {"Wake_Up_Time", "Sleep_Time"} THEN "time"
    ELSE IF column \in DOMAIN encoders THEN "decode"
    ELSE "round"

\* the branch the prediction loop takes for a column
FormatRule(column) ==
    IF column \in DOMAIN encoders THEN "decode"
    ELSE IF column \in {"Wake_Up_Time", "Sleep_Time"} THEN "time"
    ELSE "round"

---------------------------------------------------------------------------
(* What the environment supplies: requests, artifacts, artifact outcomes *)

AgeValues == {17, 18, 100, 101}
BMIValues == {9, 10, 50, 51}
SleepValues == {-1, 0, 24, 25}
ScoreValues == {-1, 0, 10, 11}
\* the 16 integer fields accept any int
FlagValues == {1, -1000}

Record(age, bmi, exercise, sleep, stress, mental, flag) ==
    [f \in Range(FieldOrder) |->
        CASE f = "Age" -> age
          [] f = "BMI" -> bmi
          [] f = "Exercise_Level" -> exercise
          [] f = "Sleep_Hours" -> sleep
          [] f = "Stress_Level" -> stress
          [] f = "Mental_Health_Priority" -> mental
          [] OTHER -> flag]

\* the bodies pydantic parses into a HealthInput
Requests ==
    { Record(a, b, e, s, t, m, g) :
        a \in AgeValues, b \in BMIValues, e \in ScoreValues, s \in SleepValues,
        t \in ScoreValues, m \in ScoreValues, g \in FlagValues }

\* class names of a label encoder
ClassNames == << <<"High">>, <<"Low">>, <<"Medium">>, <<"None">> >>
Classes == SubSeq(ClassNames, 1, MaxLabels)

\* the pickled dictionaries: models.pkl (its keys, in dict order) and
\* encoders.pkl; Wake_Up_Time and Sleep_Time are the two columns app.py names,
\* Water_Intake and Diet_Type stand for any other column
ArtifactSets ==
    { [models |-> <<"Wake_Up_Time", "Sleep_Time", "Water_Intake">>,
       encoders |-> << >>],
      [models |-> <<"Water_Intake", "Diet_Type", "Sleep_Time">>,
       encoders |-> [c \in {"Diet_Type"} |-> Classes]],
      [models |-> <<"Sleep_Time", "Wake_Up_Time", "Diet_Type">>,
       encoders |-> [c \in {"Wake_Up_Time", "Diet_Type", "Exercise_Type"} |-> Classes]],
      [models |-> << >>,
       encoders |-> [c \in {"Diet_Type"} |-> Classes]] }

\* raw predictions, in quarters: -1.25, 0.75, 1.25, 420.75
RawPredictions == {-5, 3, 5, 1683}

\* raw predictions of whole and fractional minutes over MaxDays days before
\* midnight of day 0 and MaxDays + 1 days after it
TimePredictions == (-(4 * 1440 * MaxDays)) .. (4 * 1440 * (MaxDays + 1) - 1)

\* a call into an artifact returns or raises
Outcomes == {"returns", "raises"}

---------------------------------------------------------------------------
(* The handler *)

NoInput == << >>

FreshLocals ==
    /\ user_input = NoInput
    /\ idx = 0
    /\ processed_input = NoInput
    /\ mi = 0
    /\ prediction = 0
    /\ predictions = << >>
    /\ exc = NoException
    /\ response = NoResponse
    /\ calls = << >>

Init ==
    /\ \E a \in ArtifactSets :
          /\ models = a.models
          /\ encoders = a.encoders
    /\ preprocessor = [feature_names_in |-> InputFeatureList]
    /\ input_features = InputFeatureList
    /\ pc = "idle"
    /\ FreshLocals

\* a handler that consumes the feature list while it builds the frame
ArtifactsConsumed ==
    /\ input_features' = IF pc = "transform" THEN Tail(input_features)
                         ELSE input_features
    /\ UNCHANGED <<models, preprocessor, encoders>>

\* the handler only reads the module-level artifacts
ArtifactsUntouched == UNCHANGED artifacts

\* line 78: user_input = data.dict()
Receive(bodies) ==
    /\ pc = "idle"
    /\ \E data \in bodies :
          user_input' = data
    /\ idx' = 1
    /\ pc' = "validate"
    /\ ArtifactsUntouched
    /\ UNCHANGED <<processed_input, mi, prediction, predictions, exc, response, calls>>

\* a validation error that is recorded while the handler carries on
ValidationRecorded(detail) ==
    /\ exc' = HTTPException(400, detail)
    /\ pc' = "transform"
    /\ response' = response

\* where the handler goes when validation raises: the raise is inside the try
ValidationRaises(detail) ==
    /\ exc' = HTTPException(400, detail)
    /\ pc' = "except"
    /\ response' = response

\* lines 79-91: one iteration of the loop over user_input.items()
ValidateField ==
    /\ pc = "validate"
    /\ idx <= Len(FieldOrder)
    /\ LET feature == FieldOrder[idx]
           detail  == RangeError(feature, user_input[feature])
       IN  /\ calls' = IF IsRangeChecked(feature)
                       THEN Append(calls, <<"check", feature>>)
                       ELSE calls
           /\ IF detail # NoText
              THEN /\ ValidationRaises(detail)
                   /\ idx' = idx
              ELSE /\ idx' = idx + 1
                   /\ pc' = IF idx + 1 > Len(FieldOrder) THEN "transform" ELSE "validate"
                   /\ UNCHANGED <<exc, response>>
    /\ ArtifactsUntouched
    /\ UNCHANGED <<user_input, processed_input, mi, prediction, predictions>>

\* lines 94-95: the one-row frame, columns in input_features order
InputRow == [i \in 1..Len(input_features) |-> user_input[input_features[i]]]

\* lines 94-99: build the frame, preprocessor.transform, predictions = {}
Transform ==
    /\ pc = "transform"
    /\ calls' = Append(calls, <<"transform", "preprocessor">>)
    /\ \E outcome \in Outcomes :
          IF outcome = "raises"
          THEN /\ exc' = ArtifactError("transform")
               /\ pc' = "except"
               /\ UNCHANGED <<processed_input, mi, predictions>>
          ELSE /\ processed_input' = InputRow
               /\ predictions' = << >>
               /\ mi' = 1
               /\ pc' = IF Len(models) = 0 THEN "return" ELSE "predict"
               /\ exc' = exc
    /\ ArtifactsUntouched
    /\ UNCHANGED <<user_input, idx, prediction, response>>

\* line 100: prediction = model.predict(processed_input)[0]
Predict(raws) ==
    /\ pc = "predict"
    /\ mi <= Len(models)
    /\ calls' = Append(calls, <<"predict", models[mi]>>)
    /\ \E outcome \in Outcomes :
          IF outcome = "raises"
          THEN /\ exc' = ArtifactError("predict")
               /\ pc' = "except"
               /\ prediction' = prediction
          ELSE /\ \E raw \in raws : prediction' = raw
               /\ pc' = "format"
               /\ exc' = exc
    /\ ArtifactsUntouched
    /\ UNCHANGED <<user_input, idx, processed_input, mi, predictions, response>>

\* predictions[column] = value
Store(preds, column, value) == (column :> value) @@ preds

\* a loop that stops one column early
LoopAfterEarly(i) == IF i + 1 >= Len(models) THEN "return" ELSE "predict"

\* the position of the loop after the body ran for models[mi]
LoopAfter(i) == IF i + 1 > Len(models) THEN "return" ELSE "predict"

\* lines 101-108: format the raw prediction of models[mi] and store it
Format ==
    /\ pc = "format"
    /\ LET column == models[mi]
           rule   == FormatRule(column)
           label  == IntOf(prediction)
       IN  IF rule = "decode"
           THEN /\ calls' = Append(calls, <<"inverse_transform", column>>)
                /\ IF KnowsLabel(encoders[column], label)
                   THEN /\ predictions' =
                             Store(predictions, column,
                                   InverseTransform(encoders[column], label))
                        /\ mi' = mi + 1
                        /\ pc' = LoopAfter(mi)
                        /\ exc' = exc
                   ELSE /\ exc' = ArtifactError("inverse_transform")
                        /\ pc' = "except"
                        /\ UNCHANGED <<predictions, mi>>
           ELSE /\ predictions' =
                     Store(predictions, column,
                           IF rule = "time" THEN minutes_to_time(prediction)
                           ELSE FormatOneDecimal(prediction))
                /\ mi' = mi + 1
                /\ pc' = LoopAfter(mi)
                /\ UNCHANGED <<exc, calls>>
    /\ ArtifactsUntouched
    /\ UNCHANGED <<user_input, idx, processed_input, prediction, response>>

\* line 110: return {"predictions": predictions}
Return ==
    /\ pc = "return"
    /\ response' = OkResponse(predictions)
    /\ pc' = "done"
    /\ ArtifactsUntouched
    /\ UNCHANGED <<locals, exc, calls>>

\* a handler that sends what was predicted so far along with the error
CaughtWithPartial(e) ==
    [status_code |-> 500, keys |-> {"detail", "predictions"},
     detail |-> <<"An error occurred: ">> \o StrOfException(e),
     predictions |-> predictions]

\* lines 111-112: except Exception as e: raise HTTPException(500, ...)
Caught(e) ==
    HTTPErrorResponse(HTTPException(500, <<"An error occurred: ">> \o StrOfException(e)))

Except ==
    /\ pc = "except"
    /\ response' = Caught(exc)
    /\ pc' = "done"
    /\ ArtifactsUntouched
    /\ UNCHANGED <<locals, exc, calls>>

\* the response has left; the request's frame is dropped
Finish ==
    /\ pc = "done"
    /\ pc' = "idle"
    /\ user_input' = NoInput
    /\ idx' = 0
    /\ processed_input' = NoInput
    /\ mi' = 0
    /\ prediction' = 0
    /\ predictions' = << >>
    /\ exc' = NoException
    /\ response' = NoResponse
    /\ calls' = << >>
    /\ ArtifactsUntouched

Next ==
    \/ Receive(Requests)
    \/ ValidateField
    \/ Transform
    \/ Predict(RawPredictions)
    \/ Format
    \/ Return
    \/ Except
    \/ Finish

Spec == Init /\ [][Next]_vars

---------------------------------------------------------------------------
(* The handler serving one time column, over every minute of the explored  *)
(* days: the specification under which minutes_to_time is checked          *)

TimeRequest == Record(30, 22, 5, 8, 5, 5, 1)

InitTime ==
    /\ models \in { <<"Wake_Up_Time">>, <<"Sleep_Time">> }
    /\ encoders = << >>
    /\ preprocessor = [feature_names_in |-> InputFeatureList]
    /\ input_features = InputFeatureList
    /\ pc = "idle"
    /\ FreshLocals

NextTime ==
    \/ Receive({TimeRequest})
    \/ ValidateField
    \/ Transform
    \/ Predict(TimePredictions)
    \/ Format
    \/ Return
    \/ Except
    \/ Finish

SpecTime == InitTime /\ [][NextTime]_vars

---------------------------------------------------------------------------
(* Vocabulary of the properties *)

\* the ranges as the properties state them
AllInRange(rec) ==
    /\ 18 <= rec["Age"] /\ rec["Age"] <= 100
    /\ 10 <= rec["BMI"] /\ rec["BMI"] <= 50
    /\ 0 <= rec["Sleep_Hours"] /\ rec["Sleep_Hours"] <= 24
    /\ \A f \in {"Exercise_Level", "Stress_Level", "Mental_Health_Priority"} :
          0 <= rec[f] /\ rec[f] <= 10

OutOfRange(rec, f) ==
    CASE f = "Age" -> ~(18 <= rec[f] /\ rec[f] <= 100)
      [] f = "BMI" -> ~(10 <= rec[f] /\ rec[f] <= 50)
      [] f = "Sleep_Hours" -> ~(0 <= rec[f] /\ rec[f] <= 24)
      [] f \in {"Exercise_Level", "Stress_Level", "Mental_Health_Priority"} ->
            ~(0 <= rec[f] /\ rec[f] <= 10)
      [] OTHER -> FALSE

FieldMessage(f) ==
    CASE f = "Age" -> <<"Age must be between 18 and 100">>
      [] f = "BMI" -> <<"BMI must be between 10 and 50">>
      [] f = "Sleep_Hours" -> <<"Sleep Hours must be between 0 and 24">>
      [] OTHER -> <<f, " must be between 0 and 10">>

\* a validation error was raised for the request in hand
ValidationFailed == exc.type = "HTTPException" /\ exc.status_code = 400

\* an artifact (or a conversion on its result) raised for the request in hand
TransformFailed == exc.type = "Exception"

IsArtifactCall(c) == c[1] \in {"transform", "predict", "inverse_transform"}

Count(log, c) == Cardinality({ i \in 1..Len(log) : log[i] = c })

\* the range checks executed so far, in order
RECURSIVE ChecksOf(_)
ChecksOf(log) ==
    IF log = << >> THEN << >>
    ELSE IF Head(log)[1] = "check" THEN <<Head(log)[2]>> \o ChecksOf(Tail(log))
    ELSE ChecksOf(Tail(log))

\* the loop has just stored the value of a column, whose raw prediction is
\* still in `prediction'
JustFormatted == pc \in {"predict", "return"} /\ mi > 1
LastColumn == models[mi - 1]

IsDigit(ch) == \E d \in 0..9 : Digit(d) = ch
DigitValue(ch) == CHOOSE d \in 0..9 : Digit(d) = ch

---------------------------------------------------------------------------
(* C1: every request with a validated field out of range is answered with  *)
(* status 400 and the detail of an offending field, not an internal error. *)
(* The code raises the 400 inside the try block, where line 111 catches it *)
(* and answers 500, so this statement is violated.                         *)
C1_ValidationAnswers400 ==
    (pc = "done" /\ ~AllInRange(user_input)) =>
        /\ response.status_code = 400
        /\ \E f \in FloatFields :
              OutOfRange(user_input, f) /\ response.detail = FieldMessage(f)

(* C2: when a request passes validation and preprocessor.transform, a      *)
(* model's predict or an encoder's inverse_transform raises, the response  *)
(* has status 500, a detail starting with "An error occurred: ", and no    *)
(* predictions, the ones computed before the failure included.             *)
C2_FailureIs500WithoutPredictions ==
    (pc = "done" /\ AllInRange(user_input) /\ TransformFailed) =>
        /\ response.status_code = 500
        /\ Len(response.detail) >= 1
        /\ response.detail[1] = "An error occurred: "
        /\ response.keys = {"detail"}
        /\ response.predictions = << >>

C2_Witness ==
    /\ pc = "done"
    /\ AllInRange(user_input)
    /\ TransformFailed
    /\ exc.detail = <<"inverse_transform">>
    /\ DOMAIN predictions # {}
    /\ response.status_code = 500

(* C3: when a request passes validation and nothing raises, the response   *)
(* is the predictions map, its keys are exactly the keys of models, and    *)
(* each model's predict was called exactly once.                           *)
C3_OneEntryPerTarget ==
    (pc = "done" /\ AllInRange(user_input) /\ exc = NoException) =>
        /\ response.status_code = 200
        /\ response.keys = {"predictions"}
        /\ DOMAIN response.predictions = Range(models)
        /\ \A c \in Range(models) : Count(calls, <<"predict", c>>) = 1
        /\ Count(calls, <<"transform", "preprocessor">>) = 1

C3_Witness ==
    /\ pc = "done"
    /\ exc = NoException
    /\ Len(models) = 3
    /\ DOMAIN response.predictions = {"Water_Intake", "Diet_Type", "Sleep_Time"}

(* C4: within a request, every range check comes before the call of       *)
(* preprocessor.transform, which is called at most once and before any     *)
(* predict; a column's inverse_transform comes after that column's         *)
(* predict; once the loops are passed the transform was called exactly     *)
(* once; and when validation fails no artifact is called at all.           *)
C4_FixedOrder ==
    /\ \A i, j \in 1..Len(calls) :
          (i < j /\ calls[j][1] = "check") => calls[i][1] = "check"
    /\ Count(calls, <<"transform", "preprocessor">>) <= 1
    /\ \A j \in 1..Len(calls) :
          calls[j][1] \in {"predict", "inverse_transform"} =>
              \E i \in 1..(j - 1) : calls[i][1] = "transform"
    /\ \A j \in 1..Len(calls) :
          calls[j][1] = "inverse_transform" =>
              \E i \in 1..(j - 1) : calls[i] = <<"predict", calls[j][2]>>
    /\ pc \in {"predict", "format", "return"} =>
          /\ Count(calls, <<"transform", "preprocessor">>) = 1
          /\ ChecksOf(calls) = SubSeq(FieldOrder, 1, 6)
    /\ ValidationFailed => \A j \in 1..Len(calls) : ~IsArtifactCall(calls[j])

C4_Witness ==
    /\ pc = "done"
    /\ response.status_code = 200
    /\ Len(calls) = 12
    /\ calls[7] = <<"transform", "preprocessor">>
    /\ calls[9] = <<"predict", "Wake_Up_Time">>
    /\ calls[10] = <<"inverse_transform", "Wake_Up_Time">>

(* C5: no step of the handler, whether the request succeeds, fails         *)
(* validation or fails in a transform, changes models, preprocessor,       *)
(* encoders or input_features; and the handler waits for its next request  *)
(* in the state it was in at startup, nothing of earlier requests left.    *)
C5_ArtifactsNeverChange ==
    [][ /\ models' = models
        /\ preprocessor' = preprocessor
        /\ encoders' = encoders
        /\ input_features' = input_features
        /\ input_features' = InputFeatureList
        /\ (pc' = "idle") => FreshLocals' ]_vars

C5_Witness ==
    /\ pc = "done"
    /\ response.status_code = 200
    /\ DOMAIN response.predictions # {}
    /\ input_features = InputFeatureList

(* C6: validation lets a record through if and only if 18 <= Age <= 100,   *)
(* 10 <= BMI <= 50, 0 <= Sleep_Hours <= 24 and the three scores are in     *)
(* 0..10, bounds included; the 16 integer fields are never compared with   *)
(* a range, whatever they hold.                                            *)
C6_AcceptsExactlyInRange ==
    /\ (pc \in {"transform", "predict", "format", "return"}) => AllInRange(user_input)
    /\ (pc \in {"except", "done"} /\ ~ValidationFailed) => AllInRange(user_input)
    /\ ValidationFailed => ~AllInRange(user_input)
    /\ (pc \in {"except", "done"} /\ AllInRange(user_input)) => ~ValidationFailed
    /\ \A j \in 1..Len(calls) :
          calls[j][1] = "check" => calls[j][2] \notin FlagFields

C6_Witness ==
    /\ pc = "transform"
    /\ user_input["Age"] = 18
    /\ user_input["BMI"] = 50
    /\ user_input["Sleep_Hours"] = 24
    /\ user_input["Stress_Level"] = 0
    /\ user_input["Depression"] = -1000

\* the tenths a string of the shape [-]digits.digit denotes
RECURSIVE NatOf(_)
NatOf(digits) ==
    IF digits = << >> THEN 0
    ELSE 10 * NatOf(SubSeq(digits, 1, Len(digits) - 1)) + DigitValue(digits[Len(digits)])

Unsigned(str) == IF str # << >> /\ str[1] = "-" THEN Tail(str) ELSE str

IsOneDecimal(str) ==
    LET body == Unsigned(str)
    IN  /\ Len(body) >= 3
        /\ body[Len(body) - 1] = "."
        /\ \A i \in (1..Len(body)) \ {Len(body) - 1} : IsDigit(body[i])

TenthsOf(str) ==
    LET body == Unsigned(str)
        t    == 10 * NatOf(SubSeq(body, 1, Len(body) - 2)) + DigitValue(body[Len(body)])
    IN  IF body = str THEN t ELSE -t

(* C7: each column's raw prediction is formatted by exactly one rule: the  *)
(* decoded label of int(prediction) when the column has an encoder, even   *)
(* for Wake_Up_Time and Sleep_Time; otherwise minutes_to_time(prediction)  *)
(* for those two columns; otherwise the prediction rounded to one decimal  *)
(* place, as a string.                                                     *)
C7_FormattingPrecedence ==
    JustFormatted =>
        LET c == LastColumn
            v == predictions[c]
        IN  /\ Count(calls, <<"inverse_transform", c>>)
                  = (IF c \in DOMAIN encoders THEN 1 ELSE 0)
            /\ IF c \in DOMAIN encoders
               THEN v = encoders[c][IntOf(prediction) + 1]
               ELSE IF c \in {"Wake_Up_Time", "Sleep_Time"}
               THEN v = minutes_to_time(prediction)
               ELSE /\ IsOneDecimal(v)
                    /\ 4 * TenthsOf(v) - 10 * prediction \in -2..2

C7_Witness ==
    /\ JustFormatted
    /\ LastColumn = "Wake_Up_Time"
    /\ "Wake_Up_Time" \in DOMAIN encoders
    /\ prediction = 5
    /\ predictions["Wake_Up_Time"] = <<"Low">>
    /\ predictions["Sleep_Time"] = <<"0", "7", ":", "0", "0", " ", "AM">>

\* the order in which the property lists the validated fields
DeclaredOrder ==
    << "Age", "BMI", "Exercise_Level", "Sleep_Hours", "Stress_Level",
       "Mental_Health_Priority" >>

(* C10: when several validated fields are out of range, the one error      *)
(* raised names the first offending field in the order Age, BMI,           *)
(* Exercise_Level, Sleep_Hours, Stress_Level, Mental_Health_Priority, and  *)
(* the fields after it are not checked.                                    *)
C10_FirstOffendingFieldOnly ==
    ValidationFailed =>
        LET bad   == { i \in 1..Len(DeclaredOrder) : OutOfRange(user_input, DeclaredOrder[i]) }
            first == CHOOSE i \in bad : \A j \in bad : i <= j
        IN  /\ bad # {}
            /\ exc.detail = FieldMessage(DeclaredOrder[first])
            /\ ChecksOf(calls) = SubSeq(DeclaredOrder, 1, first)

C10_Witness ==
    /\ pc = "done"
    /\ ValidationFailed
    /\ user_input["Age"] = 100
    /\ user_input["BMI"] = 10
    /\ user_input["Exercise_Level"] = 11
    /\ user_input["Sleep_Hours"] = 25
    /\ user_input["Stress_Level"] = -1
    /\ exc.detail = <<"Exercise_Level", " must be between 0 and 10">>
    /\ ChecksOf(calls) = <<"Age", "BMI", "Exercise_Level">>

---------------------------------------------------------------------------
(* minutes_to_time, under SpecTime *)

\* the loop has just stored the clock string of a whole number of minutes
ClockOfWholeMinutes ==
    /\ JustFormatted
    /\ FormatRule(LastColumn) = "time"
    /\ prediction % 4 = 0

WholeMinutes == prediction \div 4

IsClock(out) ==
    /\ Len(out) = 7
    /\ \A i \in {1, 2, 4, 5} : IsDigit(out[i])
    /\ out[3] = ":"
    /\ out[6] = " "
    /\ out[7] \in {"AM", "PM"}

HourOf(out) == 10 * DigitValue(out[1]) + DigitValue(out[2])
MinuteOf(out) == 10 * DigitValue(out[4]) + DigitValue(out[5])

(* C8: for a whole number m of minutes with 0 <= m <= 1439, the result of  *)
(* minutes_to_time is "HH:MM AM|PM" with minute m mod 60, AM exactly when  *)
(* m < 720, and an hour in 01..12: 12 for m in 0..59 and in 720..779,      *)
(* (m div 60) mod 12 otherwise.                                            *)
C8_TwelveHourClock ==
    (ClockOfWholeMinutes /\ WholeMinutes \in 0..1439) =>
        LET m   == WholeMinutes
            out == predictions[LastColumn]
        IN  /\ IsClock(out)
            /\ MinuteOf(out) = m % 60
            /\ (out[7] = "AM") <=> (m < 720)
            /\ HourOf(out) \in 1..12
            /\ HourOf(out) = (IF m \in 0..59 \/ m \in 720..779 THEN 12
                              ELSE (m \div 60) % 12)

C8_Witness ==
    /\ ClockOfWholeMinutes
    /\ WholeMinutes = 745
    /\ predictions[LastColumn] = <<"1", "2", ":", "2", "5", " ", "PM">>

(* C9: for every whole number m of minutes, negative or beyond a day       *)
(* included, the result of minutes_to_time is its result for m mod 1440    *)
(* (floored, non-negative), with an hour in 01..12 and a minute in 00..59. *)
C9_WrapsAroundTheDay ==
    ClockOfWholeMinutes =>
        LET out == predictions[LastColumn]
        IN  /\ out = minutes_to_time(4 * (WholeMinutes % 1440))
            /\ IsClock(out)
            /\ HourOf(out) \in 1..12
            /\ MinuteOf(out) \in 0..59

C9_Witness ==
    /\ ClockOfWholeMinutes
    /\ WholeMinutes = -1
    /\ predictions[LastColumn] = <<"1", "1", ":", "5", "9", " ", "PM">>

====
